---- MODULE Spec2Model ----
(***************************************************************************)
(* Dual-channel delivery subsystem of the GiveBit SDK:                     *)
(*   WebSocketManager (src/src/websocket.ts)  - the persistent channel     *)
(*   RestClient polling (src/unnamed/part_001) - the fallback poller       *)
(*   GiveBit (src/unnamed/part_000)            - the facade owning both    *)
(* Every handler of the source is one action; timers, sockets and promises *)
(* are explicit state, so that what a handler leaves armed or unsettled    *)
(* can be observed.                                                        *)
(***************************************************************************)
EXTENDS Naturals, Integers, Sequences, FiniteSets, TLC

\* ---------------------------------------------------------------- bounds
\* Sockets of the manager that may be alive (connecting, open or closing) or
\* scheduled by a reconnect timer at the same time.
MaxSockets == 2
\* Requests send() may accept in one run.
MaxMsgs == 2
\* The constructor's maxReconnectAttempts (default 5), kept small.
MaxReconnectAttempts == 2
\* Heartbeat intervals that may be armed at the same time.
MaxHeartbeats == 2
\* Polling timers that may be alive (armed, or cancelled with a fetch still
\* in flight) at the same time.
MaxTimers == 2
\* Fetches of one polling timer that may be in flight at once.
MaxInflight == 2
\* Subscriptions one registry (the manager's or the facade's) may hold.
MaxListeners == 2
\* Remote create calls of createDonationSession that may be in flight at once.
MaxCreates == 1
\* Characters of the longest creatorWallet that is tried.
MaxWalletLen == 2
\* Events the recording subscriber keeps.
MaxReceived == 4
\* The largest reconnectAttempts a caller's configuration asks for.
MaxConfigAttempts == 3

SocketIds == 1..MaxSockets
MsgIds == 1..MaxMsgs

\* A slot's readyState is "connecting", "open", "closing" or "closed", or
\* "unused" when the slot holds no socket: none was created in it yet, or the
\* one it held has closed and nothing refers to it.

\* Inbound frames of the request/reply protocol, and the odd ones:
\* parse = FALSE is a frame JSON.parse rejects; id = 0 is a
\* frame without (or with a falsy) id; type = "" a frame without a type.
Frames == [parse : {TRUE}, id : 0..(MaxMsgs + 1), error : BOOLEAN,
           type : {"", "donation_finalized"}]
          \cup {[parse |-> FALSE, id |-> 0, error |-> FALSE, type |-> ""]}

\* Push frames of the service: an event kind and the session snapshot it is
\* about. "donation_expired" is a kind nothing is forwarded for.
PushFrames == [parse : {TRUE}, id : {0}, error : {FALSE},
               type : {"donation_finalized", "donation_expired"},
               session : {"s1", "s2"}]

VARIABLES
    ws,                 \* this.ws: 0 (null) or the socket the handle refers to
    sock,               \* readyState of the socket in each slot
    connectPromise,     \* the promise of the connect() that created the socket
    closedLocally,      \* sockets on which disconnect() called close()
    reconnectAttempts,  \* this.reconnectAttempts
    maxReconnectAttempts, \* this.maxReconnectAttempts, given at construction
    reconnectTimers,    \* setTimeout(() => this.connect()) timers still armed
    heartbeatInterval,  \* this.heartbeatInterval: 0 (null) or 1 (an interval)
    armedHeartbeats,    \* number of setInterval heartbeat timers still armed
    messageId,          \* this.messageId
    pendingRequests,    \* keys of this.pendingRequests
    timeouts,           \* request ids whose 15 s timeout is armed
    settles,            \* per request id: how many resolve/reject calls were made
    pollingIntervals,   \* this.pollingIntervals: session -> timer id (0: absent)
    armedIntervals,     \* setInterval polling timers still armed
    timerSession,       \* the sessionId each timer's closure captured
    timerCallback,      \* the callback each timer's closure captured
    inflight,           \* per timer: fetches issued whose result is outstanding
    facadeConnect,      \* the promise of the GiveBit.connect() awaiting the socket
    creating,           \* createDonationSession calls awaiting their remote create
    activeSessions,     \* GiveBit.activeSessions
    remoteStatus,       \* the status the remote service holds for each session
    listeners,          \* WebSocketManager.listeners: kind -> callbacks, in order
    eventListeners,     \* GiveBit.eventListeners: kind -> callbacks, in order
    instance,           \* GiveBit.instance: <<>> (unset) or <<the config it holds>>
    delay,              \* the delay the last handler gave setTimeout (0: none armed)
    settled,            \* which of its timer's outstanding fetches the last handler
                        \* got the result of, counted from the oldest (0: none)
    received,           \* what the recording subscriber was handed, in order
    delivered,          \* the dispatch the last handler made: event and invocations
    last                \* the handler that ran last and what it returned/emitted

channelVars == <<ws, sock, connectPromise, closedLocally, reconnectAttempts,
                 reconnectTimers, heartbeatInterval, armedHeartbeats,
                 messageId, pendingRequests, timeouts, settles>>
pollerVars == <<pollingIntervals, armedIntervals, timerSession, timerCallback,
                inflight>>
sessionVars == <<facadeConnect, creating, activeSessions, remoteStatus>>
registryVars == <<listeners, eventListeners>>
vars == <<channelVars, pollerVars, sessionVars, registryVars,
          maxReconnectAttempts, instance, delay,
          settled, received, delivered, last>>

Sessions == {"s1", "s2"}
Callbacks == {"cbA", "cbB"}
TimerIds == 1..MaxTimers
Statuses == {"pending", "confirmed", "finalized", "failed", "expired"}

\* The kinds DonationEvent declares, which are the kinds setupEventForwarding
\* forwards from the manager to the facade's registry.
ForwardedKinds == {"connection_open", "connection_lost", "donation_pending",
                   "donation_confirmed", "donation_finalized", "donation_failed"}
\* The kinds an event can be dispatched under: the declared ones and the one
\* more that prefixing a status can produce.
EventKinds == ForwardedKinds \cup {"donation_expired"}

\* "donation_" + updatedSession.status
PollEventKind(status) ==
    CASE status = "pending"   -> "donation_pending"
      [] status = "confirmed" -> "donation_confirmed"
      [] status = "finalized" -> "donation_finalized"
      [] status = "failed"    -> "donation_failed"
      [] status = "expired"   -> "donation_expired"

\* The callbacks a caller subscribes, told apart by what they do when invoked:
\* return, throw, or unsubscribe themselves (off(kind, self)) and return.
Subscribers == {"cbReturns", "cbThrows", "cbOffSelf"}
\* The closure setupEventForwarding registers with the manager for each kind.
Forwarder == "forward"
\* The closure GiveBit.createDonationSession hands to startPolling.
PollBroadcast == "broadcast"
\* A caller's callback that keeps every event it is handed and returns.
Recorder == "cbRecords"

\* The dispatch a handler made: the event's kind and session snapshot, and
\* the subscribers invoked, in order, each with the registry it was in, the
\* kind and the snapshot it was handed.
NoDispatch == [kind |-> "", session |-> "", invoked |-> <<>>]
Invocation(at, cb, kind, session) ==
    [at |-> at, cb |-> cb, kind |-> kind, session |-> session]

\* What the handler that ran last did: its name, the socket, request or timer
\* it ran for, its outcome, and the event it emitted (channel) or the callback
\* it invoked and the session it was called for (poller).
NoCall == [op |-> "init", id |-> 0, out |-> "", emitted |-> "", session |-> ""]
Call(op, id, out, emitted) ==
    [op |-> op, id |-> id, out |-> out, emitted |-> emitted, session |-> ""]
PollCall(op, t, out, cb, s) ==
    [op |-> op, id |-> t, out |-> out, emitted |-> cb, session |-> s]

\* ------------------------------------------------------------ construction
\* The state after construction with a reconnect budget.
InitWith(budget) ==
    /\ maxReconnectAttempts = budget
    /\ ws = 0
    /\ sock = [s \in SocketIds |-> "unused"]
    /\ connectPromise = [s \in SocketIds |-> "none"]
    /\ closedLocally = {}
    /\ reconnectAttempts = 0
    /\ reconnectTimers = 0
    /\ heartbeatInterval = 0
    /\ armedHeartbeats = 0
    /\ messageId = 0
    /\ pendingRequests = {}
    /\ timeouts = {}
    /\ settles = [i \in MsgIds |-> 0]
    /\ pollingIntervals = [s \in Sessions |-> 0]
    /\ armedIntervals = {}
    /\ timerSession = [t \in TimerIds |-> ""]
    /\ timerCallback = [t \in TimerIds |-> ""]
    /\ inflight = [t \in TimerIds |-> 0]
    /\ facadeConnect = [s \in SocketIds |-> "none"]
    /\ creating = 0
    /\ activeSessions = {}
    /\ remoteStatus = [s \in Sessions |-> "pending"]
    /\ listeners = [k \in EventKinds |->
                      IF k \in ForwardedKinds THEN <<Forwarder>> ELSE <<>>]
    /\ eventListeners = [k \in EventKinds |-> <<>>]
    /\ instance = <<>>
    /\ delay = 0
    /\ settled = 0
    /\ received = <<>>
    /\ delivered = NoDispatch
    /\ last = NoCall

\* Constructed with the largest budget that is tried.
Init == InitWith(MaxReconnectAttempts)

\* Constructed with any budget, none (0) included.
InitAnyBudget == \E budget \in 0..MaxReconnectAttempts : InitWith(budget)

\* ---------------------------------------------------- subscriber registries
\* Both registries (WebSocketManager.listeners, GiveBit.eventListeners) keep
\* one array of callbacks per kind and are written and walked by the same code.

\* callbacks.indexOf(callback): the first position holding it, 0 when absent.
IndexOf(callbacks, cb) ==
    IF \E i \in 1..Len(callbacks) : callbacks[i] = cb
      THEN CHOOSE i \in 1..Len(callbacks) :
              callbacks[i] = cb /\ \A j \in 1..(i - 1) : callbacks[j] # cb
      ELSE 0

\* callbacks.splice(index, 1)
Splice(callbacks, i) ==
    SubSeq(callbacks, 1, i - 1) \o SubSeq(callbacks, i + 1, Len(callbacks))

\* off(event, callback), on the array of that kind: the first occurrence goes.
Without(callbacks, cb) ==
    IF IndexOf(callbacks, cb) > 0 THEN Splice(callbacks, IndexOf(callbacks, cb))
    ELSE callbacks

\* What invoking cb leaves of the array it is being invoked from.
AfterInvoke(callbacks, cb) ==
    IF cb = "cbOffSelf" THEN Without(callbacks, cb) ELSE callbacks

\* Mutant of Caught: no try/catch around the invocation.
Caught_Never(cb) == cb # "cbThrows"

\* try { cb(event) } catch (error) { console.error(...) }: whether the loop
\* goes on after cb, whatever cb did.
Caught(cb) == TRUE

\* callbacks.forEach(cb => ...): the length is read once, before the first
\* call; position k is visited if the array still has it when its turn comes,
\* and holds whatever the array holds there by then.
RECURSIVE ForEach(_, _, _, _)
ForEach(callbacks, k, len, invoked) ==
    IF k > len THEN [callbacks |-> callbacks, invoked |-> invoked]
    ELSE IF k > Len(callbacks) THEN ForEach(callbacks, k + 1, len, invoked)
    ELSE IF ~Caught(callbacks[k])
      THEN [callbacks |-> AfterInvoke(callbacks, callbacks[k]),
            invoked |-> Append(invoked, callbacks[k])]
    ELSE ForEach(AfterInvoke(callbacks, callbacks[k]), k + 1, len,
                 Append(invoked, callbacks[k]))

\* broadcastEvent(event): the facade's callbacks of event.type, or none.
BroadcastEvent(kind) ==
    ForEach(eventListeners[kind], 1, Len(eventListeners[kind]), <<>>)

\* The invocations of one emit, in the order they happened: the manager's
\* own subscribers, and in the forwarder's place the facade's subscribers.
RECURSIVE Expand(_, _, _, _)
Expand(minvoked, finvoked, kind, session) ==
    IF minvoked = <<>> THEN <<>>
    ELSE (IF Head(minvoked) = Forwarder
            THEN [i \in 1..Len(finvoked) |->
                    Invocation("facade", finvoked[i], kind, session)]
            ELSE <<Invocation("manager", Head(minvoked), kind, session)>>)
         \o Expand(Tail(minvoked), finvoked, kind, session)

\* emit(event, data) of the manager, with the forwarder's broadcastEvent(data)
\* inside it: what both registries hold afterwards, and who was invoked.
Emit(kind, session) ==
    LET m == ForEach(listeners[kind], 1, Len(listeners[kind]), <<>>)
        forwards == \E i \in 1..Len(m.invoked) : m.invoked[i] = Forwarder
        f == IF forwards THEN BroadcastEvent(kind)
             ELSE [callbacks |-> eventListeners[kind], invoked |-> <<>>]
    IN  [listeners |-> [listeners EXCEPT ![kind] = m.callbacks],
         eventListeners |-> [eventListeners EXCEPT ![kind] = f.callbacks],
         invoked |-> Expand(m.invoked, f.invoked, kind, session)]

\* What the recording subscriber holds after a dispatch that came from
\* `source`: one more entry for each time it was invoked.
RECURSIVE Recorded(_, _)
Recorded(source, invoked) ==
    IF invoked = <<>> THEN received
    ELSE LET before == Recorded(source, SubSeq(invoked, 1, Len(invoked) - 1))
             call == invoked[Len(invoked)]
         IN  IF call.cb = Recorder
               THEN Append(before, [source |-> source, kind |-> call.kind,
                                    session |-> call.session])
               ELSE before

\* A handler that emits one event through the manager.
Emits(kind, session) ==
    /\ Len(Recorded("channel", Emit(kind, session).invoked)) <= MaxReceived
    /\ received' = Recorded("channel", Emit(kind, session).invoked)
    /\ listeners' = Emit(kind, session).listeners
    /\ eventListeners' = Emit(kind, session).eventListeners
    /\ delivered' = [kind |-> kind, session |-> session,
                     invoked |-> Emit(kind, session).invoked]

\* A handler that hands one event to the facade's broadcastEvent.
Broadcasts(kind, session) ==
    /\ eventListeners' = [eventListeners EXCEPT ![kind] = BroadcastEvent(kind).callbacks]
    /\ delivered' = [kind |-> kind, session |-> session,
                     invoked |-> [i \in 1..Len(BroadcastEvent(kind).invoked) |->
                        Invocation("facade", BroadcastEvent(kind).invoked[i],
                                   kind, session)]]
    /\ Len(Recorded("poller", delivered'.invoked)) <= MaxReceived
    /\ received' = Recorded("poller", delivered'.invoked)
    /\ UNCHANGED listeners

\* A handler that dispatches nothing.
Quiet ==
    /\ delivered' = NoDispatch
    /\ UNCHANGED registryVars
    /\ UNCHANGED received

\* ------------------------------------------------ WebSocketManager helpers

\* isConnected(): a handle exists and its socket reports OPEN.
IsConnected == ws # 0 /\ sock[ws] = "open"

\* Sockets whose handlers can still run.
Live == {s \in SocketIds : sock[s] \in {"connecting", "open", "closing"}}

\* Slots a new socket can take: the empty ones, and the one holding a closed
\* socket that only this.ws refers to (connect() overwrites this.ws).
FreeSlots == {s \in SocketIds : sock[s] \in {"unused", "closed"}}
NewSocket == CHOOSE s \in FreeSlots : \A o \in FreeSlots : s <= o

\* connect(): new WebSocket(url) stored in this.ws, with the four handlers
\* attached; nothing is done about a socket this.ws referred to before.
ConnectBody ==
    /\ FreeSlots # {}
    /\ ws' = NewSocket
    /\ sock' = [s \in SocketIds |->
                  IF s = NewSocket THEN "connecting"
                  ELSE IF sock[s] = "closed" THEN "unused" ELSE sock[s]]
    /\ connectPromise' = [s \in SocketIds |->
                  IF s = NewSocket THEN "pending"
                  ELSE IF sock[s] = "closed" THEN "none" ELSE connectPromise[s]]
    /\ closedLocally' = closedLocally \ {NewSocket}

\* startHeartbeat(): a new interval, stored over whatever handle was there.
ArmedAfterStart == armedHeartbeats + 1

\* Mutant of ArmedAfterStop: the handle is dropped, its interval left armed.
ArmedAfterStop_Leak == armedHeartbeats

\* stopHeartbeat(): clears the interval the handle names, if any.
ArmedAfterStop == IF heartbeatInterval # 0 THEN armedHeartbeats - 1
                  ELSE armedHeartbeats

\* Mutant of MayReconnect: the budget test off by one.
MayReconnect_OffByOne == reconnectAttempts <= maxReconnectAttempts

\* Mutant of MayReconnect: a budget of 0 is taken for no budget given.
MayReconnect_ZeroIsUnset ==
    reconnectAttempts < (IF maxReconnectAttempts = 0 THEN 5 ELSE maxReconnectAttempts)

\* Mutant of MayReconnect: the budget is never spent.
MayReconnect_Always == TRUE

\* attemptReconnect(): whether one more reconnect is scheduled.
MayReconnect == reconnectAttempts < maxReconnectAttempts

\* this.reconnectDelay, with the default the facade's constructor gives it.
ReconnectDelay == 3000

\* Math.pow(base, exponent) for a whole exponent >= 0.
RECURSIVE Pow(_, _)
Pow(base, exponent) ==
    IF exponent = 0 THEN 1 ELSE base * Pow(base, exponent - 1)

\* Mutant of BackoffDelay: every retry waits the base delay.
BackoffDelay_Constant(attempts) == ReconnectDelay

\* attemptReconnect(): the delay computed from the incremented counter.
BackoffDelay(attempts) == ReconnectDelay * Pow(2, attempts - 1)

\* Mutant of Rejected: reject() overrides a promise already settled.
Rejected_Always(promise) == "rejected"

\* reject(error) on the promise connect() returned.
Rejected(promise) == IF promise = "pending" THEN "rejected" ELSE promise

\* Mutant of FacadeConnectSettles: connect() without its try/catch.
FacadeConnectSettles_NoCatch(outcome) == outcome

\* GiveBit.connect(): try { await this.wsManager.connect() } catch { warn }:
\* how its promise settles once the manager's promise has settled.
FacadeConnectSettles(outcome) ==
    IF outcome = "rejected" THEN "resolved" ELSE outcome

\* The promises of GiveBit.connect() calls after a connect() of the manager:
\* awaited is "pending" when the facade made the call and awaits it, "none"
\* when nobody awaits the new socket's promise.
AwaitedAfterConnect(awaited) ==
    [s \in SocketIds |->
        IF s = NewSocket THEN awaited
        ELSE IF sock[s] = "closed" THEN "none" ELSE facadeConnect[s]]

\* The state a closed socket is left in: it stays visible as CLOSED while
\* this.ws refers to it, and is gone otherwise.
Closed(s) == IF ws = s THEN "closed" ELSE "unused"

\* ------------------------------------------------ WebSocketManager actions

\* connect() called by the owner.
Connect ==
    /\ Cardinality(Live) + reconnectTimers < MaxSockets
    /\ ConnectBody
    /\ last' = Call("connect", NewSocket, "pending", "")
    /\ UNCHANGED <<reconnectAttempts, reconnectTimers, heartbeatInterval,
                   armedHeartbeats, messageId, pendingRequests,
                   timeouts, settles>>
    /\ UNCHANGED pollerVars
    /\ facadeConnect' = AwaitedAfterConnect("none")
    /\ UNCHANGED <<creating, activeSessions, remoteStatus>>
    /\ Quiet
    /\ UNCHANGED instance
    /\ delay' = 0
    /\ settled' = 0
    /\ UNCHANGED maxReconnectAttempts

\* The reconnect timer fires: this.connect().catch(console.error).
ReconnectFire ==
    /\ reconnectTimers > 0
    /\ reconnectTimers' = reconnectTimers - 1
    /\ ConnectBody
    /\ last' = Call("reconnect_fire", NewSocket, "pending", "")
    /\ UNCHANGED <<reconnectAttempts, heartbeatInterval, armedHeartbeats,
                   messageId, pendingRequests, timeouts, settles>>
    /\ UNCHANGED pollerVars
    /\ facadeConnect' = AwaitedAfterConnect("none")
    /\ UNCHANGED <<creating, activeSessions, remoteStatus>>
    /\ Quiet
    /\ UNCHANGED instance
    /\ delay' = 0
    /\ settled' = 0
    /\ UNCHANGED maxReconnectAttempts

\* ws.onopen of socket s.
OnOpen(s) ==
    /\ sock[s] = "connecting"
    /\ armedHeartbeats < MaxHeartbeats
    /\ sock' = [sock EXCEPT ![s] = "open"]
    /\ reconnectAttempts' = 0
    /\ heartbeatInterval' = 1
    /\ armedHeartbeats' = ArmedAfterStart
    /\ connectPromise' = [connectPromise EXCEPT ![s] = "resolved"]
    /\ last' = Call("onopen", s, "resolved", "connection_open")
    /\ UNCHANGED <<ws, closedLocally, reconnectTimers, messageId,
                   pendingRequests, timeouts, settles>>
    /\ UNCHANGED pollerVars
    /\ facadeConnect' = [facadeConnect EXCEPT ![s] =
                            IF @ = "pending" THEN FacadeConnectSettles("resolved")
                            ELSE @]
    /\ UNCHANGED <<creating, activeSessions, remoteStatus>>
    /\ Emits("connection_open", "")
    /\ UNCHANGED instance
    /\ delay' = 0
    /\ settled' = 0
    /\ UNCHANGED maxReconnectAttempts

\* ws.onerror of socket s: reject(error); a promise already settled stays as
\* it is. The transport closes the socket after an error.
OnError(s) ==
    /\ sock[s] \in {"connecting", "open", "closing"}
    /\ sock' = [sock EXCEPT ![s] = "closing"]
    /\ connectPromise' = [connectPromise EXCEPT ![s] = Rejected(@)]
    /\ last' = Call("onerror", s, connectPromise'[s], "")
    /\ UNCHANGED <<ws, closedLocally, reconnectAttempts, reconnectTimers,
                   heartbeatInterval, armedHeartbeats, messageId,
                   pendingRequests, timeouts, settles>>
    /\ UNCHANGED pollerVars
    /\ facadeConnect' = [facadeConnect EXCEPT ![s] =
                            IF @ = "pending" THEN FacadeConnectSettles("rejected")
                            ELSE @]
    /\ UNCHANGED <<creating, activeSessions, remoteStatus>>
    /\ Quiet
    /\ UNCHANGED instance
    /\ delay' = 0
    /\ settled' = 0
    /\ UNCHANGED maxReconnectAttempts

\* ws.onclose of socket s: stopHeartbeat, emit connection_lost,
\* attemptReconnect. A connecting socket closes only after its error event or
\* after a local close().
OnClose(s) ==
    /\ sock[s] \in {"open", "closing"}
    /\ sock' = [sock EXCEPT ![s] = Closed(s)]
    /\ connectPromise' = [connectPromise EXCEPT ![s] = IF ws = s THEN @ ELSE "none"]
    /\ closedLocally' = closedLocally \ {s}
    /\ armedHeartbeats' = ArmedAfterStop
    /\ heartbeatInterval' = 0
    /\ IF MayReconnect
         THEN /\ reconnectAttempts' = reconnectAttempts + 1
              /\ reconnectTimers' = reconnectTimers + 1
              /\ last' = Call("onclose", s, "reconnect_scheduled", "connection_lost")
         ELSE /\ UNCHANGED <<reconnectAttempts, reconnectTimers>>
              /\ last' = Call("onclose", s, "gave_up", "connection_lost")
    /\ UNCHANGED <<ws, messageId, pendingRequests, timeouts, settles>>
    /\ UNCHANGED pollerVars
    /\ facadeConnect' = [facadeConnect EXCEPT ![s] = IF ws = s THEN @ ELSE "none"]
    /\ UNCHANGED <<creating, activeSessions, remoteStatus>>
    /\ Emits("connection_lost", "")
    /\ UNCHANGED instance
    /\ delay' = IF MayReconnect THEN BackoffDelay(reconnectAttempts') ELSE 0
    /\ settled' = 0
    /\ UNCHANGED maxReconnectAttempts

\* disconnect(): stopHeartbeat; if a handle exists, close() it and null it.
DisconnectBody ==
    /\ armedHeartbeats' = ArmedAfterStop
    /\ heartbeatInterval' = 0
    /\ IF ws # 0
         THEN /\ sock' = [sock EXCEPT ![ws] =
                            IF @ \in {"connecting", "open"} THEN "closing"
                            ELSE IF @ = "closed" THEN "unused" ELSE @]
              /\ connectPromise' = [connectPromise EXCEPT ![ws] =
                            IF sock[ws] = "closed" THEN "none" ELSE @]
              /\ facadeConnect' = [facadeConnect EXCEPT ![ws] =
                            IF sock[ws] = "closed" THEN "none" ELSE @]
              /\ closedLocally' = IF sock[ws] = "closed" THEN closedLocally
                                  ELSE closedLocally \cup {ws}
              /\ ws' = 0
         ELSE UNCHANGED <<sock, connectPromise, facadeConnect, closedLocally, ws>>
    /\ UNCHANGED <<reconnectAttempts, reconnectTimers,
                   messageId, pendingRequests, timeouts, settles>>

\* disconnect() called on the manager.
Disconnect ==
    /\ DisconnectBody
    /\ last' = Call("disconnect", ws, "", "")
    /\ UNCHANGED pollerVars
    /\ UNCHANGED <<creating, activeSessions, remoteStatus>>
    /\ Quiet
    /\ UNCHANGED instance
    /\ delay' = 0
    /\ settled' = 0
    /\ UNCHANGED maxReconnectAttempts

\* The heartbeat interval fires: ping through the current handle when it is
\* open, nothing otherwise. No pong is awaited.
HeartbeatTick ==
    /\ armedHeartbeats > 0
    /\ last' = Call("heartbeat", ws, IF IsConnected THEN "ping" ELSE "skipped", "")
    /\ UNCHANGED channelVars
    /\ UNCHANGED pollerVars
    /\ UNCHANGED sessionVars
    /\ Quiet
    /\ UNCHANGED instance
    /\ delay' = 0
    /\ settled' = 0
    /\ UNCHANGED maxReconnectAttempts

\* Mutant of CanSend: only the handle is tested, not its readyState.
CanSend_HandleOnly == ws # 0

\* send() guard: the request is transmitted only through an open handle.
CanSend == ws # 0 /\ sock[ws] = "open"

\* Mutant of Settle: the promise of the request is left as it is.
Settle_Lost(id) == settles

\* One resolve or reject call on the promise of request id. Which of the two,
\* and with what, is what the handler reports in last.out.
Settle(id) == [settles EXCEPT ![id] = @ + 1]

\* Mutant of NextMessageId: the numbering starts over when nothing is pending.
NextMessageId_Restart == IF pendingRequests = {} THEN 1 ELSE messageId + 1

\* String(++this.messageId)
NextMessageId == messageId + 1

\* send(data); serializable = FALSE is a payload on which
\* ws.send(JSON.stringify(message)) throws, which the catch block undoes.
Send(serializable) ==
    /\ IF ~CanSend
         THEN /\ last' = Call("send", 0, "rejected_not_connected", "")
              /\ UNCHANGED <<messageId, pendingRequests, timeouts, settles>>
         ELSE /\ messageId < MaxMsgs
              /\ messageId' = NextMessageId
              /\ IF serializable
                   THEN /\ pendingRequests' = pendingRequests \cup {NextMessageId}
                        /\ timeouts' = timeouts \cup {NextMessageId}
                        /\ UNCHANGED settles
                        /\ last' = Call("send", NextMessageId, "pending", "")
                   ELSE /\ UNCHANGED <<pendingRequests, timeouts>>
                        /\ settles' = Settle(NextMessageId)
                        /\ last' = Call("send", NextMessageId, "rejected_send_error", "")
    /\ UNCHANGED <<ws, sock, connectPromise, closedLocally, reconnectAttempts,
                   reconnectTimers, heartbeatInterval, armedHeartbeats>>
    /\ UNCHANGED pollerVars
    /\ UNCHANGED sessionVars
    /\ Quiet
    /\ UNCHANGED instance
    /\ delay' = 0
    /\ settled' = 0
    /\ UNCHANGED maxReconnectAttempts

\* Mutant of PendingAfterTimeout: the timeout forgets to delete the entry.
PendingAfterTimeout_Keep(id) == pendingRequests

\* The 15 s timer of request id fires: delete the entry, reject.
PendingAfterTimeout(id) == pendingRequests \ {id}

RequestTimeout(id) ==
    /\ id \in timeouts
    /\ timeouts' = timeouts \ {id}
    /\ pendingRequests' = PendingAfterTimeout(id)
    /\ settles' = Settle(id)
    /\ last' = Call("timeout", id, "rejected_timeout", "")
    /\ UNCHANGED <<ws, sock, connectPromise, closedLocally, reconnectAttempts,
                   reconnectTimers, heartbeatInterval, armedHeartbeats, messageId>>
    /\ UNCHANGED pollerVars
    /\ UNCHANGED sessionVars
    /\ Quiet
    /\ UNCHANGED instance
    /\ delay' = 0
    /\ settled' = 0
    /\ UNCHANGED maxReconnectAttempts

\* handleMessage: the frame is a reply iff its id is truthy and pending.
\* Mutant of ReplyMatches: no frame is taken for a reply.
ReplyMatches_Never(f) == FALSE
\* Mutant of ReplyMatches: any frame with an id is taken for a reply.
ReplyMatches_AnyId(f) == f.id # 0

\* message.id && this.pendingRequests.has(message.id)
ReplyMatches(f) == f.id # 0 /\ f.id \in pendingRequests
\* Mutant of TimeoutsAfterReply: the reply path forgets clearTimeout.
TimeoutsAfterReply_NoClear(id) == timeouts
\* Mutant of TimeoutsAfterReply: the reply path clears every request's timer.
TimeoutsAfterReply_ClearAll(id) == {}
\* clearTimeout(pending.timeout)
TimeoutsAfterReply(id) == timeouts \ {id}
\* Mutant of PendingAfterReply: a reply empties the map.
PendingAfterReply_Clear(id) == {}
\* this.pendingRequests.delete(message.id)
PendingAfterReply(id) == pendingRequests \ {id}
\* message.error ? reject : resolve
ReplyOutcome(f) == IF f.error THEN "rejected_reply_error" ELSE "resolved"

\* message.session of a frame; the frames of Frames carry none.
FrameSession(f) == IF "session" \in DOMAIN f THEN f.session ELSE ""

\* ws.onmessage of some socket that can still receive: handleMessage(event.data).
\* The handler reads nothing of the socket it is attached to.
OnMessage(f) ==
    /\ \E s \in SocketIds : sock[s] \in {"open", "closing"}
    /\ IF ~f.parse
         THEN /\ last' = Call("onmessage", 0, "malformed", "")
              /\ UNCHANGED <<pendingRequests, timeouts, settles>>
              /\ Quiet
         ELSE IF ReplyMatches(f)
         THEN /\ timeouts' = TimeoutsAfterReply(f.id)
              /\ pendingRequests' = PendingAfterReply(f.id)
              /\ settles' = Settle(f.id)
              /\ last' = Call("onmessage", f.id, ReplyOutcome(f), "")
              /\ Quiet
         ELSE IF f.type # ""
         THEN /\ last' = Call("onmessage", 0, "event", f.type)
              /\ UNCHANGED <<pendingRequests, timeouts, settles>>
              /\ Emits(f.type, FrameSession(f))
         ELSE /\ last' = Call("onmessage", 0, "ignored", "")
              /\ UNCHANGED <<pendingRequests, timeouts, settles>>
              /\ Quiet
    /\ UNCHANGED sessionVars
    /\ UNCHANGED <<ws, sock, connectPromise, closedLocally, reconnectAttempts,
                   reconnectTimers, heartbeatInterval, armedHeartbeats, messageId>>
    /\ UNCHANGED pollerVars
    /\ UNCHANGED instance
    /\ delay' = 0
    /\ settled' = 0
    /\ UNCHANGED maxReconnectAttempts

ChannelNext ==
    \/ Connect
    \/ ReconnectFire
    \/ \E s \in SocketIds : OnOpen(s)
    \/ \E s \in SocketIds : OnError(s)
    \/ \E s \in SocketIds : OnClose(s)
    \/ Disconnect
    \/ HeartbeatTick
    \/ \E serializable \in BOOLEAN : Send(serializable)
    \/ \E id \in MsgIds : RequestTimeout(id)
    \/ \E f \in Frames : OnMessage(f)

ChannelSpec == Init /\ [][ChannelNext]_vars

\* The same, with the timers of setTimeout firing: the 15 s timeout of a
\* request that stays armed fires.
TimedChannelSpec ==
    /\ Init
    /\ [][ChannelNext]_vars
    /\ \A id \in MsgIds : WF_vars(RequestTimeout(id))

LifecycleNext ==
    \/ Connect
    \/ ReconnectFire
    \/ \E s \in SocketIds : OnOpen(s)
    \/ \E s \in SocketIds : OnError(s)
    \/ \E s \in SocketIds : OnClose(s)
    \/ Disconnect
    \/ HeartbeatTick

\* The connection lifecycle alone: no request is sent and no frame arrives.
LifecycleSpec == Init /\ [][LifecycleNext]_vars

\* ------------------------------------------------------ RestClient polling

\* The statuses after which a tick stops the polling of its session.
TerminalStatuses == {"finalized", "failed", "expired"}

\* What a fetch of getDonationSession can come back with.
FetchResults == Statuses \cup {"error"}

\* Mutant of AlreadyPolling: startPolling without its early return.
AlreadyPolling_Never(s) == FALSE
\* Mutant of AlreadyPolling: no polling is started while the channel is open.
AlreadyPolling_WhenConnected(s) == pollingIntervals[s] # 0 \/ IsConnected

\* this.pollingIntervals.has(sessionId)
AlreadyPolling(s) == pollingIntervals[s] # 0

\* The armed timers whose closure polls session s.
ArmedFor(s) == {t \in armedIntervals : timerSession[t] = s}

\* Mutant of ArmedAfterStopPolling: the entry is deleted, the interval not cleared.
ArmedAfterStopPolling_NoClear(s) == armedIntervals

\* stopPolling(sessionId): clearInterval and delete, when the map has an entry.
ArmedAfterStopPolling(s) ==
    IF pollingIntervals[s] # 0 THEN armedIntervals \ {pollingIntervals[s]}
    ELSE armedIntervals
IntervalsAfterStopPolling(s) == [pollingIntervals EXCEPT ![s] = 0]

\* Mutant of ArmedAfterStopAll: the map is cleared, the intervals are not.
ArmedAfterStopAll_NoClear == armedIntervals

\* stopAllPolling(): clearInterval on every value of the map, then clear().
ArmedAfterStopAll == armedIntervals \ {pollingIntervals[s] : s \in Sessions}
IntervalsAfterStopAll == [s \in Sessions |-> 0]

\* The tick's try block: callback(session) runs when the fetch succeeded.
\* Mutant of CallbackInvoked: only a terminal status is reported.
CallbackInvoked_TerminalOnly(result) == result \in {"finalized", "failed", "expired"}

CallbackInvoked(result) == result # "error"
\* Mutant of StopsPolling: a failed fetch stops the polling too.
StopsPolling_OnError(result, threw) ==
    result \in (TerminalStatuses \cup {"error"}) /\ ~threw

\* Mutant of StopsPolling: no status stops the polling.
StopsPolling_Never(result, threw) == FALSE

\* ... and stopPolling is reached when the callback returned and the status
\* is terminal; a throw (of the fetch or of the callback) lands in the catch.
StopsPolling(result, threw) == result \in TerminalStatuses /\ ~threw

\* Timer ids no timer holds: a timer is gone once it is cancelled and no
\* fetch of it is in flight, and its closure (session, callback) with it.
FreeTimers == {t \in TimerIds : t \notin armedIntervals /\ inflight[t] = 0}
NewTimer == CHOOSE t \in FreeTimers : \A o \in FreeTimers : t <= o
Closure(captured, armed, flying) ==
    [t \in TimerIds |-> IF t \notin armed /\ flying[t] = 0 THEN "" ELSE captured[t]]

\* startPolling(sessionId, callback): what it does to the poller.
StartPollingBody(s, cb) ==
    IF AlreadyPolling(s)
      THEN UNCHANGED pollerVars
      ELSE /\ FreeTimers # {}
           /\ armedIntervals' = armedIntervals \cup {NewTimer}
           /\ timerSession' = [timerSession EXCEPT ![NewTimer] = s]
           /\ timerCallback' = [timerCallback EXCEPT ![NewTimer] = cb]
           /\ pollingIntervals' = [pollingIntervals EXCEPT ![s] = NewTimer]
           /\ UNCHANGED inflight

\* startPolling(sessionId, callback) called on the client.
StartPolling(s, cb) ==
    /\ StartPollingBody(s, cb)
    /\ last' = IF AlreadyPolling(s)
                 THEN PollCall("startPolling", pollingIntervals[s], "noop", "", s)
                 ELSE PollCall("startPolling", NewTimer, "armed", "", s)
    /\ UNCHANGED channelVars
    /\ UNCHANGED sessionVars
    /\ Quiet
    /\ UNCHANGED instance
    /\ delay' = 0
    /\ settled' = 0
    /\ UNCHANGED maxReconnectAttempts

\* The interval of timer t fires: the async tick starts and awaits its fetch.
PollTick(t) ==
    /\ t \in armedIntervals
    /\ inflight[t] < MaxInflight
    /\ inflight' = [inflight EXCEPT ![t] = @ + 1]
    /\ last' = PollCall("tick", t, "fetching", "", timerSession[t])
    /\ UNCHANGED <<pollingIntervals, armedIntervals, timerSession,
                   timerCallback>>
    /\ UNCHANGED channelVars
    /\ UNCHANGED sessionVars
    /\ Quiet
    /\ UNCHANGED instance
    /\ delay' = 0
    /\ settled' = 0
    /\ UNCHANGED maxReconnectAttempts

\* A fetch of timer t comes back and the tick resumes. threw: the callback
\* throws when invoked; the facade's closure only calls broadcastEvent, which
\* lets nothing out. Ticks do not wait for one another, and of the fetches
\* outstanding any one may be the one that comes back.
FetchSettled(t, result, threw) ==
    /\ inflight[t] > 0
    /\ result = "error" => ~threw
    /\ timerCallback[t] = PollBroadcast => ~threw
    /\ IF timerCallback[t] = PollBroadcast /\ CallbackInvoked(result)
         THEN Broadcasts(PollEventKind(result), timerSession[t])
         ELSE Quiet
    /\ UNCHANGED sessionVars
    /\ inflight' = [inflight EXCEPT ![t] = @ - 1]
    /\ IF StopsPolling(result, threw)
         THEN /\ armedIntervals' = ArmedAfterStopPolling(timerSession[t])
              /\ pollingIntervals' = IntervalsAfterStopPolling(timerSession[t])
         ELSE UNCHANGED <<armedIntervals, pollingIntervals>>
    /\ last' = PollCall(IF threw THEN "fetch_settled_callback_threw"
                        ELSE "fetch_settled",
                        t, result,
                        IF CallbackInvoked(result) THEN timerCallback[t] ELSE "",
                        timerSession[t])
    /\ timerSession' = Closure(timerSession, armedIntervals', inflight')
    /\ timerCallback' = Closure(timerCallback, armedIntervals', inflight')
    /\ UNCHANGED channelVars
    /\ UNCHANGED instance
    /\ delay' = 0
    /\ \E k \in 1..inflight[t] : settled' = k
    /\ UNCHANGED maxReconnectAttempts

\* stopPolling(sessionId)
StopPolling(s) ==
    /\ armedIntervals' = ArmedAfterStopPolling(s)
    /\ pollingIntervals' = IntervalsAfterStopPolling(s)
    /\ last' = PollCall("stopPolling", pollingIntervals[s], "", "", s)
    /\ timerSession' = Closure(timerSession, armedIntervals', inflight)
    /\ timerCallback' = Closure(timerCallback, armedIntervals', inflight)
    /\ UNCHANGED inflight
    /\ UNCHANGED channelVars
    /\ UNCHANGED sessionVars
    /\ Quiet
    /\ UNCHANGED instance
    /\ delay' = 0
    /\ settled' = 0
    /\ UNCHANGED maxReconnectAttempts

\* stopAllPolling(): what it does to the poller.
StopAllPollingBody ==
    /\ armedIntervals' = ArmedAfterStopAll
    /\ pollingIntervals' = IntervalsAfterStopAll
    /\ timerSession' = Closure(timerSession, armedIntervals', inflight)
    /\ timerCallback' = Closure(timerCallback, armedIntervals', inflight)
    /\ UNCHANGED inflight

\* stopAllPolling() called on the client.
StopAllPolling ==
    /\ StopAllPollingBody
    /\ last' = PollCall("stopAllPolling", 0, "", "", "")
    /\ UNCHANGED channelVars
    /\ UNCHANGED sessionVars
    /\ Quiet
    /\ UNCHANGED instance
    /\ delay' = 0
    /\ settled' = 0
    /\ UNCHANGED maxReconnectAttempts

PollerNext ==
    \/ \E s \in Sessions, cb \in Callbacks : StartPolling(s, cb)
    \/ \E t \in TimerIds : PollTick(t)
    \/ \E t \in TimerIds, result \in FetchResults, threw \in BOOLEAN :
          FetchSettled(t, result, threw)
    \/ \E s \in Sessions : StopPolling(s)
    \/ StopAllPolling

PollerSpec == Init /\ [][PollerNext]_vars

\* ------------------------------------------------------------------ GiveBit

\* options.creatorWallet as createDonationSession sees it: absent, or a string
\* of blanks and other characters.
WalletChars == {" ", "x"}
Wallets == UNION {[1..n -> WalletChars] : n \in 0..MaxWalletLen}
Options == [present : {TRUE}, creatorWallet : Wallets]
           \cup {[present |-> FALSE, creatorWallet |-> <<>>]}

\* String.prototype.trim(): the blanks at both ends go.
RECURSIVE TrimStart(_)
TrimStart(str) ==
    IF str # <<>> /\ Head(str) = " " THEN TrimStart(Tail(str)) ELSE str
RECURSIVE TrimEnd(_)
TrimEnd(str) ==
    IF str # <<>> /\ str[Len(str)] = " "
      THEN TrimEnd(SubSeq(str, 1, Len(str) - 1)) ELSE str
Trim(str) == TrimEnd(TrimStart(str))

\* Mutant of WalletRejected: the test without the trim.
WalletRejected_NoTrim(options) ==
    ~options.present \/ options.creatorWallet = <<>>

\* !options.creatorWallet || options.creatorWallet.trim() === ''
WalletRejected(options) ==
    \/ ~options.present
    \/ options.creatorWallet = <<>>
    \/ Trim(options.creatorWallet) = <<>>

\* GiveBit.connect(): the manager's connect(), awaited inside try/catch.
FacadeConnect ==
    /\ Cardinality(Live) + reconnectTimers < MaxSockets
    /\ ConnectBody
    /\ facadeConnect' = AwaitedAfterConnect("pending")
    /\ last' = Call("facade_connect", NewSocket, "pending", "")
    /\ UNCHANGED <<reconnectAttempts, reconnectTimers, heartbeatInterval,
                   armedHeartbeats, messageId, pendingRequests,
                   timeouts, settles>>
    /\ UNCHANGED pollerVars
    /\ UNCHANGED <<creating, activeSessions, remoteStatus>>
    /\ Quiet
    /\ UNCHANGED instance
    /\ delay' = 0
    /\ settled' = 0
    /\ UNCHANGED maxReconnectAttempts

\* GiveBit.createDonationSession(options) up to its first await: the client
\* validates the wallet and throws, or issues the remote create.
CreateDonationSession(options) ==
    /\ IF WalletRejected(options)
         THEN /\ last' = Call("createDonationSession", 0, "rejected_validation", "")
              /\ UNCHANGED creating
         ELSE /\ creating < MaxCreates
              /\ creating' = creating + 1
              /\ last' = Call("createDonationSession", 0, "creating", "")
    /\ UNCHANGED <<facadeConnect, activeSessions, remoteStatus>>
    /\ UNCHANGED channelVars
    /\ UNCHANGED pollerVars
    /\ Quiet
    /\ UNCHANGED instance
    /\ delay' = 0
    /\ settled' = 0
    /\ UNCHANGED maxReconnectAttempts

\* Mutant of ActiveAfterCreate: the session is tracked only while the
\* channel is not open.
ActiveAfterCreate_UnlessOpen(s) ==
    IF IsConnected THEN activeSessions ELSE activeSessions \cup {s}

\* this.activeSessions.add(session.id)
ActiveAfterCreate(s) == activeSessions \cup {s}
\* Mutant of CreateReturned: a failed remote create is taken for a success.
CreateReturned_Always(ok) == TRUE

\* await this.restClient.createDonationSession(...): returns, or throws on a
\* response that is not ok and on a network failure.
CreateReturned(ok) == ok

\* The remote create comes back. ok = FALSE: the fetch failed or the response
\* was not ok, and the call rejects; otherwise the response is session s, it
\* is tracked, and polling is started for it with the broadcasting closure.
CreateSettled(ok, s) ==
    /\ creating > 0
    /\ creating' = creating - 1
    /\ IF CreateReturned(ok)
         THEN /\ activeSessions' = ActiveAfterCreate(s)
              /\ StartPollingBody(s, PollBroadcast)
              /\ last' = PollCall("createSettled", pollingIntervals'[s],
                                  "resolved", "", s)
         ELSE /\ UNCHANGED activeSessions
              /\ UNCHANGED pollerVars
              /\ last' = PollCall("createSettled", 0, "rejected_remote", "", "")
    /\ UNCHANGED <<facadeConnect, remoteStatus>>
    /\ UNCHANGED channelVars
    /\ Quiet
    /\ UNCHANGED instance
    /\ delay' = 0
    /\ settled' = 0
    /\ UNCHANGED maxReconnectAttempts

\* The subscriptions a registry holds that a caller made.
Subscriptions(registry) ==
    Cardinality({<<k, i>> \in EventKinds \X (1..(MaxListeners + 2)) :
                    i <= Len(registry[k]) /\ registry[k][i] # Forwarder})

\* WebSocketManager.on(event, callback)
On(k, cb) ==
    /\ Subscriptions(listeners) < MaxListeners
    /\ listeners' = [listeners EXCEPT ![k] = Append(@, cb)]
    /\ delivered' = NoDispatch
    /\ last' = Call("on", 0, cb, k)
    /\ UNCHANGED <<eventListeners, channelVars, pollerVars, sessionVars>>
    /\ UNCHANGED received
    /\ UNCHANGED instance
    /\ delay' = 0
    /\ settled' = 0
    /\ UNCHANGED maxReconnectAttempts

\* WebSocketManager.off(event, callback)
Off(k, cb) ==
    /\ listeners' = [listeners EXCEPT ![k] = Without(@, cb)]
    /\ delivered' = NoDispatch
    /\ last' = Call("off", 0, cb, k)
    /\ UNCHANGED <<eventListeners, channelVars, pollerVars, sessionVars>>
    /\ UNCHANGED received
    /\ UNCHANGED instance
    /\ delay' = 0
    /\ settled' = 0
    /\ UNCHANGED maxReconnectAttempts

\* GiveBit.on(event, callback)
FacadeOn(k, cb) ==
    /\ Subscriptions(eventListeners) < MaxListeners
    /\ eventListeners' = [eventListeners EXCEPT ![k] = Append(@, cb)]
    /\ delivered' = NoDispatch
    /\ last' = Call("facade_on", 0, cb, k)
    /\ UNCHANGED <<listeners, channelVars, pollerVars, sessionVars>>
    /\ UNCHANGED received
    /\ UNCHANGED instance
    /\ delay' = 0
    /\ settled' = 0
    /\ UNCHANGED maxReconnectAttempts

\* GiveBit.off(event, callback)
FacadeOff(k, cb) ==
    /\ eventListeners' = [eventListeners EXCEPT ![k] = Without(@, cb)]
    /\ delivered' = NoDispatch
    /\ last' = Call("facade_off", 0, cb, k)
    /\ UNCHANGED <<listeners, channelVars, pollerVars, sessionVars>>
    /\ UNCHANGED received
    /\ UNCHANGED instance
    /\ delay' = 0
    /\ settled' = 0
    /\ UNCHANGED maxReconnectAttempts

\* GiveBit.disconnect(): the manager's disconnect(), the client's
\* stopAllPolling(), activeSessions.clear().
FacadeDisconnect ==
    /\ DisconnectBody
    /\ StopAllPollingBody
    /\ activeSessions' = {}
    /\ last' = Call("facade_disconnect", ws,
                    IF armedIntervals # {} THEN "polling_stopped" ELSE "", "")
    /\ UNCHANGED <<creating, remoteStatus>>
    /\ Quiet
    /\ UNCHANGED instance
    /\ delay' = 0
    /\ settled' = 0
    /\ UNCHANGED maxReconnectAttempts

\* The facade with its channel: connect, create sessions, disconnect, and the
\* socket events in between. No timer of the poller ticks.
CoordinatorNext ==
    \/ FacadeConnect
    \/ ReconnectFire
    \/ \E s \in SocketIds : OnOpen(s)
    \/ \E s \in SocketIds : OnError(s)
    \/ \E s \in SocketIds : OnClose(s)
    \/ FacadeDisconnect
    \/ \E options \in Options : CreateDonationSession(options)
    \/ \E ok \in BOOLEAN, s \in Sessions : CreateSettled(ok, s)

CoordinatorSpec == Init /\ [][CoordinatorNext]_vars

\* The facade with its poller and subscribers that return: sessions are
\* created and polled with the channel never connected.
SessionNext ==
    \/ FacadeDisconnect
    \/ \E options \in Options : CreateDonationSession(options)
    \/ \E ok \in BOOLEAN, s \in Sessions : CreateSettled(ok, s)
    \/ \E t \in TimerIds : PollTick(t)
    \/ \E t \in TimerIds, result \in FetchResults : FetchSettled(t, result, FALSE)
    \/ \E k \in {"donation_finalized", "donation_expired"} : FacadeOn(k, "cbReturns")

SessionSpec == Init /\ [][SessionNext]_vars

\* The facade with its channel and subscribers of one pushed kind: any
\* sequence of connects, disconnects, errors, closes and reconnects, with
\* push frames arriving and subscriptions made and dropped in between.
DispatchNext ==
    \/ FacadeConnect
    \/ ReconnectFire
    \/ \E s \in SocketIds : OnOpen(s)
    \/ \E s \in SocketIds : OnError(s)
    \/ \E s \in SocketIds : OnClose(s)
    \/ FacadeDisconnect
    \/ \E f \in PushFrames : OnMessage(f)
    \/ \E cb \in Subscribers : FacadeOn("donation_finalized", cb)
    \/ \E cb \in Subscribers : FacadeOff("donation_finalized", cb)

DispatchSpec == Init /\ [][DispatchNext]_vars

\* Both registries with subscribers of every behaviour, on a channel that
\* only opens: the events are connection_open and the pushed kinds.
RegistryNext ==
    \/ FacadeConnect
    \/ \E s \in SocketIds : OnOpen(s)
    \/ \E f \in PushFrames : OnMessage(f)
    \/ \E k \in {"connection_open", "donation_finalized"}, cb \in Subscribers :
          FacadeOn(k, cb)
    \/ \E k \in {"connection_open", "donation_finalized"}, cb \in Subscribers :
          FacadeOff(k, cb)
    \/ \E k \in {"donation_finalized", "donation_expired"}, cb \in Subscribers :
          On(k, cb)
    \/ \E k \in {"donation_finalized", "donation_expired"}, cb \in Subscribers :
          Off(k, cb)

RegistrySpec == Init /\ [][RegistryNext]_vars

\* The remote service moves a session on: pending, then confirmed, then
\* finalized, or to failed or expired on the way. A terminal status stays.
RemoteSuccessors(status) ==
    CASE status = "pending"   -> {"confirmed", "failed", "expired"}
      [] status = "confirmed" -> {"finalized", "failed"}
      [] OTHER                -> {}

RemoteAdvance(s, status) ==
    /\ status \in RemoteSuccessors(remoteStatus[s])
    /\ remoteStatus' = [remoteStatus EXCEPT ![s] = status]
    /\ last' = PollCall("remote", 0, status, "", s)
    /\ UNCHANGED <<facadeConnect, creating, activeSessions>>
    /\ UNCHANGED channelVars
    /\ UNCHANGED pollerVars
    /\ Quiet
    /\ UNCHANGED instance
    /\ delay' = 0
    /\ settled' = 0
    /\ UNCHANGED maxReconnectAttempts

\* What a response of getDonationSession can report for a session the remote
\* holds in the given status: that status, or one it went through before if
\* the response was made up earlier.
RECURSIVE Reported(_)
Reported(status) ==
    {status} \cup UNION {Reported(before) :
                            before \in {b \in Statuses : status \in RemoteSuccessors(b)}}

\* A fetch of timer t comes back with the status the remote holds now.
FetchSucceeds(t) ==
    /\ inflight[t] > 0
    /\ FetchSettled(t, remoteStatus[timerSession[t]], FALSE)

\* A fetch of timer t comes back failed, or with an earlier status.
FetchLags(t) ==
    /\ inflight[t] > 0
    /\ \E result \in (Reported(remoteStatus[timerSession[t]]) \cup {"error"})
                        \ {remoteStatus[timerSession[t]]} :
          FetchSettled(t, result, FALSE)

\* The channel never opens: the caller connects once, every socket errors
\* and closes and the reconnects fare no better, while sessions are created
\* and polled against a remote whose statuses move on.
FallbackNext ==
    \/ (reconnectAttempts = 0 /\ Live = {} /\ FacadeConnect)
    \/ ReconnectFire
    \/ \E s \in SocketIds : OnError(s)
    \/ \E s \in SocketIds : OnClose(s)
    \/ CreateDonationSession([present |-> TRUE, creatorWallet |-> <<"x">>])
    \/ \E ok \in BOOLEAN : CreateSettled(ok, "s1")
    \/ \E t \in TimerIds : PollTick(t)
    \/ \E t \in TimerIds : FetchSucceeds(t)
    \/ \E t \in TimerIds : FetchLags(t)
    \/ \E status \in Statuses : RemoteAdvance("s1", status)
    \/ FacadeOn("donation_finalized", "cbReturns")

\* The timers tick, and of the fetches of a timer one comes back with the
\* remote's current status again and again.
FallbackSpec ==
    /\ Init
    /\ [][FallbackNext]_vars
    /\ \A t \in TimerIds : WF_vars(PollTick(t))
    /\ \A t \in TimerIds : SF_vars(FetchSucceeds(t))

\* The connection lifecycle with callers subscribed to connection_lost at
\* the manager, one that returns and one that throws.
CloseNext ==
    \/ LifecycleNext
    \/ \E cb \in {"cbReturns", "cbThrows"} : On("connection_lost", cb)

CloseSpec == Init /\ [][CloseNext]_vars

\* Requests and inbound frames on a channel that callers have subscribed to,
\* at the manager and at the facade.
RoutingNext ==
    \/ Connect
    \/ \E s \in SocketIds : OnOpen(s)
    \/ \E serializable \in BOOLEAN : Send(serializable)
    \/ \E id \in MsgIds : RequestTimeout(id)
    \/ \E f \in Frames : OnMessage(f)
    \/ \E cb \in {"cbReturns", "cbThrows"} : On("donation_finalized", cb)
    \/ FacadeOn("donation_finalized", "cbReturns")

RoutingSpec == Init /\ [][RoutingNext]_vars

\* One session watched over both sources by a caller that keeps what it is
\* handed: the channel is connected once and pushes frames about the
\* session, and the poller fetches its status.
DuplicateNext ==
    \/ (ws = 0 /\ FacadeConnect)
    \/ \E s \in SocketIds : OnOpen(s)
    \/ \E f \in {g \in PushFrames : g.session = "s1"} : OnMessage(f)
    \/ CreateDonationSession([present |-> TRUE, creatorWallet |-> <<"x">>])
    \/ CreateSettled(TRUE, "s1")
    \/ \E t \in TimerIds : PollTick(t)
    \/ \E t \in TimerIds, result \in {"pending", "finalized"} :
          FetchSettled(t, result, FALSE)
    \/ \E k \in {"donation_pending", "donation_finalized"} : FacadeOn(k, Recorder)

DuplicateSpec == Init /\ [][DuplicateNext]_vars

\* One session polled while the channel goes through its whole lifecycle:
\* the caller connects whenever no socket and no reconnect is left.
BackgroundNext ==
    \/ (Live = {} /\ reconnectTimers = 0 /\ FacadeConnect)
    \/ ReconnectFire
    \/ \E s \in SocketIds : OnOpen(s)
    \/ \E s \in SocketIds : OnError(s)
    \/ \E s \in SocketIds : OnClose(s)
    \/ FacadeDisconnect
    \/ CreateDonationSession([present |-> TRUE, creatorWallet |-> <<"x">>])
    \/ \E ok \in BOOLEAN : CreateSettled(ok, "s1")
    \/ \E t \in TimerIds : PollTick(t)
    \/ \E t \in TimerIds, result \in {"pending", "finalized", "error"} :
          FetchSettled(t, result, FALSE)

BackgroundSpec == Init /\ [][BackgroundNext]_vars

\* The connection lifecycle of a manager constructed with any budget.
BudgetSpec == InitAnyBudget /\ [][LifecycleNext]_vars

\* ------------------------------------------------------- GiveBit singleton

\* RECONNECT_ATTEMPTS, the default of GiveBitConfig.reconnectAttempts.
DefaultReconnectAttempts == 5

\* The configurations a caller passes to init: reconnectAttempts 0 stands for
\* a configuration without the field.
Configs == [projectId : {"p1", "p2"}, mode : {"testnet", "mainnet"},
            reconnectAttempts : 0..MaxConfigAttempts]

\* new GiveBit(config): the defaults, overridden by the fields config has.
Constructed(config) ==
    [projectId |-> config.projectId,
     mode |-> config.mode,
     reconnectAttempts |-> IF config.reconnectAttempts = 0
                             THEN DefaultReconnectAttempts
                             ELSE config.reconnectAttempts,
     reconnectDelay |-> ReconnectDelay]

\* Mutant of InstanceAfterInit: init constructs an instance on every call.
InstanceAfterInit_Always(config) == <<Constructed(config)>>

\* init(config): if (!GiveBit.instance) GiveBit.instance = new GiveBit(config)
InstanceAfterInit(config) ==
    IF instance = <<>> THEN <<Constructed(config)>> ELSE instance

\* GiveBit.init(config): returns GiveBit.instance.
GiveBitInit(config) ==
    /\ instance' = InstanceAfterInit(config)
    /\ last' = Call("init", config.reconnectAttempts, "returned", config.mode)
    /\ delay' = 0
    /\ settled' = 0
    /\ UNCHANGED maxReconnectAttempts
    /\ UNCHANGED <<channelVars, pollerVars, sessionVars>>
    /\ Quiet

\* GiveBit.getInstance(): throws while GiveBit.instance is null.
GetInstance ==
    /\ last' = Call("getInstance", 0,
                    IF instance = <<>> THEN "threw_not_initialized"
                    ELSE "returned", "")
    /\ delay' = 0
    /\ settled' = 0
    /\ UNCHANGED maxReconnectAttempts
    /\ UNCHANGED instance
    /\ UNCHANGED <<channelVars, pollerVars, sessionVars>>
    /\ Quiet

SingletonNext ==
    \/ \E config \in Configs : GiveBitInit(config)
    \/ GetInstance

\* The static accessors alone, called in any order with any configurations.
SingletonSpec == Init /\ [][SingletonNext]_vars

\* The channel of a service that keeps failing: the owner connects, sockets
\* open, fail and close, and reconnect timers fire.
RetryNext ==
    \/ Connect
    \/ ReconnectFire
    \/ \E s \in SocketIds : OnOpen(s)
    \/ \E s \in SocketIds : OnError(s)
    \/ \E s \in SocketIds : OnClose(s)

\* An armed reconnect timer fires, every socket fails sooner or later, and
\* the transport closes a socket that failed.
RetrySpec ==
    /\ Init
    /\ [][RetryNext]_vars
    /\ WF_vars(ReconnectFire)
    /\ \A s \in SocketIds : WF_vars(OnError(s))
    /\ \A s \in SocketIds : WF_vars(OnClose(s))

Next == ChannelNext \/ PollerNext \/ CoordinatorNext \/ SessionNext
        \/ DispatchNext \/ RegistryNext \/ FallbackNext \/ RetryNext
        \/ SingletonNext \/ CloseNext \/ RoutingNext \/ DuplicateNext
        \/ BackgroundNext

Spec == Init /\ [][Next]_vars

\* ------------------------------------------------------------------ claims

\* C1: the reconnect-attempt counter is reset to zero by every open, grows by
\* exactly one per close while it is below the maximum (and one reconnect is
\* scheduled then), is changed by nothing else, and once it equals the maximum
\* a close schedules no further reconnect.
C1_ReconnectCounter ==
    [][ /\ \A s \in SocketIds : OnOpen(s) => reconnectAttempts' = 0
        /\ \A s \in SocketIds : OnClose(s) =>
              IF reconnectAttempts < MaxReconnectAttempts
                THEN /\ reconnectAttempts' = reconnectAttempts + 1
                     /\ reconnectTimers' = reconnectTimers + 1
                ELSE /\ reconnectAttempts' = reconnectAttempts
                     /\ reconnectTimers' = reconnectTimers
        /\ last'.op \notin {"onopen", "onclose"} =>
              /\ reconnectAttempts' = reconnectAttempts
              /\ reconnectTimers' <= reconnectTimers
        /\ reconnectAttempts' <= MaxReconnectAttempts ]_vars

\* C1 witness: a close found the counter at the maximum and gave up.
C1_Witness ==
    /\ last.op = "onclose"
    /\ last.out = "gave_up"
    /\ reconnectAttempts = MaxReconnectAttempts
    /\ reconnectTimers = 0

\* C2: the close event of a socket that disconnect() closed does not run the
\* reconnection procedure: it schedules no reconnect and leaves the counter.
C2_NoReconnectAfterDisconnect ==
    [][ \A s \in SocketIds : (OnClose(s) /\ s \in closedLocally) =>
           /\ reconnectTimers' = reconnectTimers
           /\ reconnectAttempts' = reconnectAttempts ]_vars

\* C3: at most one socket the manager created is live (connecting or open,
\* with its handlers attached) in every reachable state.
C3_OneLiveSocket ==
    Cardinality({s \in SocketIds : sock[s] \in {"connecting", "open"}}) <= 1

\* C4: a send() issued while the channel is not open rejects at once with the
\* not-connected error, adds no pending entry, arms no timeout and takes no
\* identifier.
C4_SendNotConnected ==
    [][ \A p \in BOOLEAN : (last'.op = "send" /\ Send(p) /\ ~IsConnected) =>
           /\ last'.out = "rejected_not_connected"
           /\ pendingRequests' = pendingRequests
           /\ timeouts' = timeouts
           /\ settles' = settles
           /\ messageId' = messageId ]_vars

\* C4 witness: a send() was rejected while a handle existed that was still
\* connecting.
C4_Witness ==
    /\ last.op = "send"
    /\ last.out = "rejected_not_connected"
    /\ ws # 0
    /\ sock[ws] = "connecting"

\* C5: a reply whose id matches a pending request settles that request exactly
\* once (resolve without an error field, reject with one), removes its entry
\* and disarms its timeout; a frame whose id matches no pending request leaves
\* the pending set, the timeouts and every promise as they were; no request is
\* ever settled twice, and none is settled while still pending.
C5_ReplySettlesOnce ==
    /\ [](\A i \in MsgIds : settles[i] <= 1 /\ (i \in pendingRequests => settles[i] = 0))
    /\ [][ \A f \in Frames : (last'.op = "onmessage" /\ OnMessage(f)) =>
             IF f.parse /\ f.id \in pendingRequests
               THEN /\ pendingRequests' = pendingRequests \ {f.id}
                    /\ timeouts' = timeouts \ {f.id}
                    /\ settles' = [settles EXCEPT ![f.id] = 1]
                    /\ last'.out = (IF f.error THEN "rejected_reply_error"
                                    ELSE "resolved")
               ELSE /\ pendingRequests' = pendingRequests
                    /\ timeouts' = timeouts
                    /\ settles' = settles ]_vars

\* C5 witness: a reply with an error field rejected request 1 while request 2
\* stayed pending.
C5_Witness ==
    /\ last.op = "onmessage"
    /\ last.out = "rejected_reply_error"
    /\ last.id = 1
    /\ settles[1] = 1
    /\ pendingRequests = {2}

\* C6: the timeout of an accepted send() rejects it with the timeout error and
\* removes its entry; over reply, transmit failure and timeout a request is
\* settled at most once; a frame for a request already settled settles nothing;
\* and an accepted send() gets an identifier that is not pending and was never
\* settled.
C6_TimeoutSettlesOnce ==
    /\ [](\A i \in MsgIds : settles[i] <= 1)
    /\ [][ \A i \in MsgIds : (last'.op = "timeout" /\ RequestTimeout(i)) =>
             /\ i \in pendingRequests
             /\ pendingRequests' = pendingRequests \ {i}
             /\ i \notin timeouts'
             /\ settles' = [settles EXCEPT ![i] = 1]
             /\ last'.out = "rejected_timeout" ]_vars
    /\ [][ \A f \in Frames :
             (last'.op = "onmessage" /\ OnMessage(f) /\ f.id \in MsgIds /\ settles[f.id] > 0) =>
             /\ settles' = settles
             /\ pendingRequests' = pendingRequests ]_vars
    /\ [][ \A p \in BOOLEAN : (last'.op = "send" /\ Send(p) /\ IsConnected) =>
             /\ messageId' = messageId + 1
             /\ messageId' \notin pendingRequests
             /\ settles[messageId'] = 0
             /\ pendingRequests' \ {messageId'} = pendingRequests
             /\ \A i \in MsgIds \ {messageId'} : settles'[i] = settles[i] ]_vars

\* C6 witness: request 1 was rejected by its timeout, its entry is gone, and a
\* later send() can still take identifier 2.
C6_Witness ==
    /\ last.op = "timeout"
    /\ last.out = "rejected_timeout"
    /\ last.id = 1
    /\ settles[1] = 1
    /\ 1 \notin pendingRequests
    /\ 1 \notin timeouts
    /\ messageId = 1
    /\ IsConnected

\* C7: a tick whose fetch returned a terminal status leaves no timer armed for
\* that session and no entry for it in the map.
C7_TerminalStopsPolling ==
    [][ \A t \in TimerIds, r \in TerminalStatuses, threw \in BOOLEAN :
          FetchSettled(t, r, threw) =>
             /\ pollingIntervals'[timerSession[t]] = 0
             /\ \A u \in armedIntervals' : timerSession'[u] # timerSession[t] ]_vars

\* C8: at most one timer is armed per session and it is the one the map
\* names; a startPolling for a session that is being polled changes nothing
\* (no timer, no captured callback); after any startPolling exactly one timer
\* is armed for the session.
C8_StartPollingIdempotent ==
    /\ [](\A s \in Sessions :
            /\ Cardinality(ArmedFor(s)) <= 1
            /\ pollingIntervals[s] # 0 => ArmedFor(s) = {pollingIntervals[s]})
    /\ [][ \A s \in Sessions, cb \in Callbacks : StartPolling(s, cb) =>
             /\ pollingIntervals[s] # 0 => UNCHANGED pollerVars
             /\ Cardinality({t \in armedIntervals' : timerSession'[t] = s}) = 1 ]_vars

\* C8 witness: startPolling was called for a session already polled with
\* callback cbB, and returned without arming anything.
C8_Witness ==
    /\ last.op = "startPolling"
    /\ last.out = "noop"
    /\ Cardinality(ArmedFor(last.session)) = 1
    /\ timerCallback[last.id] = "cbB"

\* C9: a failed fetch leaves every polling timer and the map as they were and
\* invokes no callback, so the timer of that tick, if armed, fires again.
C9_FetchFailureKeepsPolling ==
    [][ \A t \in TimerIds : FetchSettled(t, "error", FALSE) =>
           /\ armedIntervals' = armedIntervals
           /\ pollingIntervals' = pollingIntervals
           /\ last'.emitted = ""
           /\ t \in armedIntervals => (t \in armedIntervals' /\ inflight'[t] < MaxInflight) ]_vars

\* C9 witness: a fetch failed and the timer that issued it is still armed.
C9_Witness ==
    /\ last.op = "fetch_settled"
    /\ last.out = "error"
    /\ last.id \in armedIntervals
    /\ pollingIntervals[last.session] = last.id

\* C10: stopPolling(s) cancels exactly the timers of s and removes its entry,
\* leaving every other session's entry and timer alone, and changes nothing
\* when s is not polled; stopAllPolling() leaves no timer armed and no entry,
\* and changes nothing when nothing is polled.
C10_StopPollingIdempotent ==
    /\ [][ \A s \in Sessions : StopPolling(s) =>
             /\ pollingIntervals'[s] = 0
             /\ armedIntervals' = armedIntervals \ ArmedFor(s)
             /\ \A o \in Sessions \ {s} : pollingIntervals'[o] = pollingIntervals[o]
             /\ pollingIntervals[s] = 0 => UNCHANGED pollerVars ]_vars
    /\ [][ StopAllPolling =>
             /\ armedIntervals' = {}
             /\ \A s \in Sessions : pollingIntervals'[s] = 0
             /\ (\A s \in Sessions : pollingIntervals[s] = 0) => UNCHANGED pollerVars ]_vars

\* C10 witness: stopPolling cancelled the timer of one session while the timer
\* of the other session stayed armed.
C10_Witness ==
    /\ last.op = "stopPolling"
    /\ last.id # 0
    /\ pollingIntervals[last.session] = 0
    /\ Cardinality(armedIntervals) = 1
    /\ \E o \in Sessions \ {last.session} : pollingIntervals[o] \in armedIntervals

C12_WalletValidatedFirst ==
    [][ \A o \in Options :
          ( /\ last'.op = "createDonationSession"
            /\ CreateDonationSession(o)
            /\ \/ ~o.present
               \/ \A i \in 1..Len(o.creatorWallet) : o.creatorWallet[i] = " " ) =>
             /\ last'.out = "rejected_validation"
             /\ creating' = creating
             /\ activeSessions' = activeSessions
             /\ UNCHANGED pollerVars ]_vars

\* C12 witness: a create was rejected by the validation while a session
\* created before was tracked and polled.
C12_Witness ==
    /\ last.op = "createDonationSession"
    /\ last.out = "rejected_validation"
    /\ creating = 0
    /\ activeSessions # {}
    /\ armedIntervals # {}

\* C13: when a remote create succeeds, the session it returned is tracked and
\* exactly one polling timer is armed for it, the one the map names, whatever
\* state the channel is in.
C13_CreatedSessionTrackedAndPolled ==
    [][ \A s \in Sessions : (last'.op = "createSettled" /\ CreateSettled(TRUE, s)) =>
           /\ s \in activeSessions'
           /\ pollingIntervals'[s] \in armedIntervals'
           /\ {t \in armedIntervals' : timerSession'[t] = s} = {pollingIntervals'[s]} ]_vars

\* C13 witness: a create succeeded after the channel had used up its
\* reconnect budget, with no socket left and no reconnect scheduled.
C13_Witness ==
    /\ last.op = "createSettled"
    /\ last.out = "resolved"
    /\ reconnectAttempts = MaxReconnectAttempts
    /\ reconnectTimers = 0
    /\ Live = {}
    /\ last.session \in activeSessions
    /\ pollingIntervals[last.session] \in armedIntervals

\* C14: GiveBit.disconnect() leaves the channel handle cleared (isConnected()
\* is false), no polling timer armed, the polling map empty and no session
\* tracked.
C14_FacadeDisconnectTearsDown ==
    [][ FacadeDisconnect =>
           /\ ws' = 0
           /\ ~(ws' # 0 /\ sock'[ws'] = "open")
           /\ armedIntervals' = {}
           /\ \A s \in Sessions : pollingIntervals'[s] = 0
           /\ activeSessions' = {} ]_vars

\* C14 witness: disconnect() ran with the channel open and sessions polled;
\* the socket it closed has not delivered its close event yet.
C14_Witness ==
    /\ last.op = "facade_disconnect"
    /\ last.out = "polling_stopped"
    /\ last.id # 0
    /\ sock[last.id] = "closing"
    /\ connectPromise[last.id] = "resolved"
    /\ ~IsConnected
    /\ armedIntervals = {}
    /\ activeSessions = {}

\* C15: when a tick stops the polling of its session on a terminal status,
\* the session is not tracked any more.
C15_StoppedSessionUntracked ==
    [][ \A t \in TimerIds, r \in TerminalStatuses :
          (last'.op = "fetch_settled" /\ FetchSettled(t, r, FALSE)) =>
             timerSession[t] \notin activeSessions' ]_vars

\* The callbacks a dispatch invoked out of one registry, in order.
InvokedAt(d, at) ==
    LET own == SelectSeq(d.invoked, LAMBDA x : x.at = at)
    IN  [i \in 1..Len(own) |-> own[i].cb]

\* The subscriptions of a kind a caller made with the manager, in order.
OwnListeners(k) == SelectSeq(listeners[k], LAMBDA cb : cb # Forwarder)

\* How often cb occurs in a sequence of callbacks.
Count(callbacks, cb) ==
    Cardinality({i \in 1..Len(callbacks) : callbacks[i] = cb})

\* a can be had from b by leaving elements out.
RECURSIVE IsSubsequence(_, _)
IsSubsequence(a, b) ==
    IF a = <<>> THEN TRUE
    ELSE IF b = <<>> THEN FALSE
    ELSE IF Head(a) = Head(b) THEN IsSubsequence(Tail(a), Tail(b))
    ELSE IsSubsequence(a, Tail(b))

\* C16: a push frame of a forwarded kind that arrives while a socket is open
\* is handed to every subscription the facade holds for that kind, once each
\* and in order, with the kind and the session snapshot of the frame, after
\* whatever connects, disconnects and reconnects came before.
C16_PushDeliveredOnce ==
    [][ \A f \in PushFrames :
          ( /\ last'.op = "onmessage"
            /\ OnMessage(f)
            /\ f.type \in ForwardedKinds
            /\ \E s \in SocketIds : sock[s] = "open" ) =>
             /\ InvokedAt(delivered', "facade") = eventListeners[f.type]
             /\ \A i \in 1..Len(delivered'.invoked) :
                   /\ delivered'.invoked[i].kind = f.type
                   /\ delivered'.invoked[i].session = f.session ]_vars

\* C17: every event handed to a subscriber of the facade has one of the six
\* declared kinds.
C17_BroadcastKindsDeclared ==
    \A i \in 1..Len(delivered.invoked) :
        delivered.invoked[i].at = "facade" =>
            delivered.invoked[i].kind \in
                {"connection_open", "connection_lost", "donation_pending",
                 "donation_confirmed", "donation_finalized", "donation_failed"}

\* C18: in every dispatch, of the manager and of the facade, the callbacks
\* invoked are subscriptions of the event's kind taken in registration order,
\* and a callback that throws costs no other callback its invocation: those
\* not invoked are at most as many as the unsubscriptions made by the
\* callbacks of this dispatch, however many of them threw.
C18_OrderedAndIsolated ==
    [][ delivered'.kind # "" =>
          /\ IsSubsequence(InvokedAt(delivered', "manager"),
                           OwnListeners(delivered'.kind))
          /\ Len(InvokedAt(delivered', "manager")) >=
                Len(OwnListeners(delivered'.kind))
                  - Count(InvokedAt(delivered', "manager"), "cbOffSelf")
          /\ IsSubsequence(InvokedAt(delivered', "facade"),
                           eventListeners[delivered'.kind])
          /\ delivered'.kind \in ForwardedKinds =>
                Len(InvokedAt(delivered', "facade")) >=
                  Len(eventListeners[delivered'.kind])
                    - Count(InvokedAt(delivered', "facade"), "cbOffSelf") ]_vars

\* C18 witness: a pushed event was handed to a manager subscriber that threw,
\* then to a facade subscriber that threw, then to the facade subscriber
\* registered after it.
C18_Witness ==
    /\ last.op = "onmessage"
    /\ delivered.kind = "donation_finalized"
    /\ InvokedAt(delivered, "facade") = <<"cbThrows", "cbReturns">>
    /\ InvokedAt(delivered, "manager") = <<"cbThrows">>
    /\ eventListeners["donation_finalized"] = <<"cbThrows", "cbReturns">>

\* C19: in a dispatch in which a callback unsubscribed itself, every other
\* callback subscribed to the kind when the dispatch started is invoked as
\* often as it was subscribed.
C19_SelfRemovalSkipsNobody ==
    [][ ( /\ delivered'.kind \in ForwardedKinds
          /\ Count(InvokedAt(delivered', "facade"), "cbOffSelf") > 0 ) =>
             \A cb \in Subscribers \ {"cbOffSelf"} :
                Count(InvokedAt(delivered', "facade"), cb)
                  = Count(eventListeners[delivered'.kind], cb) ]_vars

\* C20: on a channel that never opens, with timers that tick and fetches
\* that succeed again and again, a session that is polled has an event
\* broadcast for it by a poll tick; and once the remote holds a terminal
\* status for it, a tick broadcasts the event of that status to every
\* subscriber of its kind and leaves no polling for the session.
C20_PollingAloneDelivers ==
    /\ [](\A s \in SocketIds : sock[s] # "open")
    /\ (pollingIntervals["s1"] # 0) ~>
          ( /\ last.op = "fetch_settled"
            /\ last.session = "s1"
            /\ last.out \in Statuses
            /\ delivered.kind = PollEventKind(last.out)
            /\ delivered.session = "s1" )
    /\ (pollingIntervals["s1"] # 0 /\ remoteStatus["s1"] \in TerminalStatuses) ~>
          ( /\ last.op = "fetch_settled"
            /\ last.session = "s1"
            /\ last.out = remoteStatus["s1"]
            /\ delivered.kind = PollEventKind(last.out)
            /\ delivered.session = "s1"
            /\ InvokedAt(delivered, "facade") = eventListeners[delivered.kind]
            /\ pollingIntervals["s1"] = 0
            /\ ArmedFor("s1") = {} )

\* C20 witness: after the connect failed and the reconnect budget was used
\* up, a tick fetched "finalized", handed donation_finalized to a subscriber
\* and stopped the polling of the session.
C20_Witness ==
    /\ reconnectAttempts = MaxReconnectAttempts
    /\ reconnectTimers = 0
    /\ Live = {}
    /\ last.op = "fetch_settled"
    /\ last.out = "finalized"
    /\ delivered.kind = "donation_finalized"
    /\ InvokedAt(delivered, "facade") # <<>>
    /\ pollingIntervals["s1"] = 0
    /\ armedIntervals = {}

\* ---------------------------------------------------------------- C21

\* No socket's handlers can still run and no reconnect timer is armed.
Quiescent == Live = {} /\ reconnectTimers = 0

\* C21: reconnection terminates. The counter of reconnects scheduled since
\* the last open never exceeds the maximum; unless a socket opens or the
\* owner calls connect() again, the manager ends up with no socket and no
\* reconnect timer; and from there nothing happens but a connect() call.
C21_ReconnectionTerminates ==
    /\ [](reconnectAttempts <= MaxReconnectAttempts)
    /\ []<>(Quiescent \/ last.op \in {"connect", "onopen"})
    /\ [][Quiescent => last'.op = "connect"]_vars

\* C21 witness: the budget is spent, the last socket has closed, and neither
\* a socket nor a timer is left.
C21_Witness ==
    /\ Quiescent
    /\ ws # 0
    /\ sock[ws] = "closed"
    /\ ~IsConnected
    /\ last.op = "onclose"
    /\ last.out = "gave_up"
    /\ reconnectAttempts = MaxReconnectAttempts

\* ---------------------------------------------------------------- C22

\* C22: init is a singleton initializer. Once set, GiveBit.instance is never
\* replaced or changed, whatever is called with whatever configuration;
\* every init returns the instance, which holds the fields of the first
\* call's configuration; getInstance throws before the first init, sets
\* nothing, and returns the instance afterwards.
C22_InitIsSingleton ==
    [][ /\ instance # <<>> => instance' = instance
        /\ \A config \in Configs : GiveBitInit(config) =>
              /\ last'.out = "returned"
              /\ instance' # <<>>
              /\ instance = <<>> =>
                    /\ instance'[1].projectId = config.projectId
                    /\ instance'[1].mode = config.mode
                    /\ config.reconnectAttempts # 0 =>
                          instance'[1].reconnectAttempts = config.reconnectAttempts
        /\ GetInstance =>
              /\ instance' = instance
              /\ last'.out = IF instance = <<>> THEN "threw_not_initialized"
                             ELSE "returned" ]_vars

\* C22 witness: an init call with another mode and another reconnectAttempts
\* than the first call's returned the instance of the first call.
C22_Witness ==
    /\ last.op = "init"
    /\ last.out = "returned"
    /\ instance # <<>>
    /\ last.emitted # instance[1].mode
    /\ last.id # 0
    /\ last.id # instance[1].reconnectAttempts

\* ---------------------------------------------------------------- C23

C24_ConnectSettlesOnce ==
    [][ \A s \in SocketIds :
          /\ ( /\ connectPromise[s] \in {"resolved", "rejected"}
               /\ connectPromise'[s] # connectPromise[s] ) =>
                connectPromise'[s] \in {"none", "pending"}
          /\ ( /\ connectPromise[s] = "pending"
               /\ connectPromise'[s] \in {"resolved", "rejected"} ) =>
                /\ last'.id = s
                /\ last'.op = IF connectPromise'[s] = "resolved" THEN "onopen"
                              ELSE "onerror"
          /\ OnOpen(s) => connectPromise'[s] = "resolved"
          /\ OnError(s) =>
                /\ connectPromise'[s] = IF connectPromise[s] = "pending"
                                          THEN "rejected" ELSE connectPromise[s]
                /\ delivered' = NoDispatch
                /\ UNCHANGED registryVars ]_vars

\* C24 witness: an error on a socket that had opened left the promise of its
\* connect() resolved.
C24_Witness ==
    /\ last.op = "onerror"
    /\ last.out = "resolved"
    /\ connectPromise[last.id] = "resolved"
    /\ sock[last.id] = "closing"

\* ---------------------------------------------------------------- C25

\* C25: a frame is handled in exactly one way. One whose id is pending only
\* settles that request, also when it carries an event kind: nothing is
\* dispatched. Any other frame that carries an event kind, with or without
\* an id, is dispatched once, to every subscriber of the kind at the manager
\* and at the facade, and settles nothing.
C25_FrameRoutedOneWay ==
    [][ \A f \in Frames : (f.parse /\ OnMessage(f)) =>
          IF f.id # 0 /\ f.id \in pendingRequests
            THEN /\ delivered' = NoDispatch
                 /\ UNCHANGED registryVars
                 /\ pendingRequests' = pendingRequests \ {f.id}
                 /\ settles'[f.id] = settles[f.id] + 1
                 /\ \A id \in MsgIds \ {f.id} : settles'[id] = settles[id]
            ELSE IF f.type # ""
            THEN /\ delivered'.kind = f.type
                 /\ InvokedAt(delivered', "manager") = OwnListeners(f.type)
                 /\ InvokedAt(delivered', "facade") = eventListeners[f.type]
                 /\ UNCHANGED <<pendingRequests, timeouts, settles>>
            ELSE TRUE ]_vars

\* C25 witness: while a request was pending, a frame with an event kind that
\* was no reply to it was dispatched to subscribers at the manager and at
\* the facade, and the request stayed pending.
C25_Witness ==
    /\ last.op = "onmessage"
    /\ last.out = "event"
    /\ messageId > 0
    /\ pendingRequests # {}
    /\ delivered.kind = "donation_finalized"
    /\ InvokedAt(delivered, "manager") # <<>>
    /\ InvokedAt(delivered, "facade") = <<"cbReturns">>

\* ---------------------------------------------------------------- C26

\* C26: a frame that does not parse, or that neither matches a pending
\* request nor carries an event kind, changes nothing of the manager: pending
\* requests, their timers and settlements, the registries, the reconnect
\* counter and the sockets stay as they are, nobody is invoked, and the
\* handler returns.
C26_OddFrameChangesNothing ==
    [][ \A f \in Frames :
          ( /\ OnMessage(f)
            /\ \/ ~f.parse
               \/ ~(f.id # 0 /\ f.id \in pendingRequests) /\ f.type = "" ) =>
          /\ UNCHANGED channelVars
          /\ UNCHANGED registryVars
          /\ delivered' = NoDispatch
          /\ last'.out \in {"malformed", "ignored"} ]_vars

\* C26 witness: a frame that did not parse arrived while a request was
\* pending and a caller was subscribed; the request is still pending.
C26_Witness ==
    /\ last.op = "onmessage"
    /\ last.out = "malformed"
    /\ pendingRequests # {}
    /\ timeouts = pendingRequests
    /\ OwnListeners("donation_finalized") # <<>>
    /\ delivered = NoDispatch

\* ---------------------------------------------------------------- C27

\* C27: the reconnect a close schedules as the n-th since the last open
\* (the counter is n after its increment) waits the base delay times
\* 2^(n-1): the base delay for the first, and for every further one twice
\* what the one before it waited; nothing caps or varies it.
C27_BackoffDoubles ==
    [][ \A s \in SocketIds :
          (OnClose(s) /\ last'.out = "reconnect_scheduled") =>
             /\ reconnectAttempts' \in 1..MaxReconnectAttempts
             /\ delay' = ReconnectDelay * 2^(reconnectAttempts' - 1)
             /\ reconnectAttempts' = 1 => delay' = ReconnectDelay
             /\ reconnectAttempts' > 1 =>
                   delay' = 2 * (ReconnectDelay * 2^(reconnectAttempts' - 2)) ]_vars

\* C27 witness: the last reconnect the budget allows was scheduled, after
\* twice the delay of the one before it.
C27_Witness ==
    /\ last.op = "onclose"
    /\ last.out = "reconnect_scheduled"
    /\ reconnectAttempts = MaxReconnectAttempts
    /\ reconnectAttempts > 1
    /\ delay = 2 * BackoffDelay(reconnectAttempts - 1)

\* ---------------------------------------------------------------- C28

\* C28: the result of a fetch that was in flight when its session's polling
\* entry was removed (by stopPolling, stopAllPolling or the facade's
\* disconnect) is discarded: the polling callback is not invoked and no
\* event is broadcast.
C28_LateResultDiscarded ==
    [][ \A t \in TimerIds, result \in FetchResults :
          (FetchSettled(t, result, FALSE) /\ t \notin armedIntervals) =>
             /\ last'.emitted = ""
             /\ delivered' = NoDispatch ]_vars

\* ---------------------------------------------------------------- C29

\* C29: for two ticks of one session, the event of the earlier tick is
\* delivered before the event of the later one, also when their fetches
\* overlap: a tick's result is never broadcast right after the broadcast of
\* a result that a later tick of the same timer fetched.
C29_PollEventsInTickOrder ==
    [][ \A t \in TimerIds, result \in FetchResults :
          ~ ( /\ last.op = "fetch_settled"
              /\ last.id = t
              /\ settled > 1
              /\ delivered.kind # ""
              /\ FetchSettled(t, result, FALSE)
              /\ settled' = 1
              /\ delivered'.kind # ""
              /\ delivered'.session = delivered.session ) ]_vars

\* ---------------------------------------------------------------- C30

\* What the recording subscriber is handed when an event of a kind and a
\* session is broadcast from a source: one entry for each subscription it has.
Handed(source, kind, session) ==
    [i \in 1..Count(eventListeners[kind], Recorder) |->
       [source |-> source, kind |-> kind, session |-> session]]

\* C30: the facade de-duplicates nothing. Every poll result and every
\* forwarded push frame is broadcast to all subscribers of its kind,
\* whatever they were handed before: a subscriber's record grows by the
\* event each time, whether or not it holds the same event already.
C30_NoDeduplication ==
    [][ /\ \A t \in TimerIds, result \in {"pending", "finalized"} :
              FetchSettled(t, result, FALSE) =>
                 /\ delivered'.kind = PollEventKind(result)
                 /\ delivered'.session = timerSession[t]
                 /\ InvokedAt(delivered', "facade") = eventListeners[delivered'.kind]
                 /\ received' = received \o Handed("poller", PollEventKind(result),
                                                   timerSession[t])
        /\ \A f \in PushFrames : (f.type \in ForwardedKinds /\ OnMessage(f)) =>
                 /\ delivered'.kind = f.type
                 /\ InvokedAt(delivered', "facade") = eventListeners[f.type]
                 /\ received' = received \o Handed("channel", f.type, f.session) ]_vars

\* C30 witness: one subscriber was handed donation_finalized for s1 twice,
\* once from a channel frame and once from a poll tick, and donation_pending
\* for s1 by two poll ticks.
C30_Witness ==
    /\ \E i, j \in DOMAIN received :
          /\ received[i] = [source |-> "channel", kind |-> "donation_finalized",
                            session |-> "s1"]
          /\ received[j] = [source |-> "poller", kind |-> "donation_finalized",
                            session |-> "s1"]
    /\ \E i, j \in DOMAIN received :
          /\ i < j
          /\ received[i] = [source |-> "poller", kind |-> "donation_pending",
                            session |-> "s1"]
          /\ received[j] = received[i]

\* ---------------------------------------------------------------- C31

\* C31: a reply (with or without an error field) or a timeout that settles
\* one request leaves every other request as it was: its entry, its timer
\* and whether its promise is settled.
C31_SettlingIsLocal ==
    [][ \A id \in MsgIds :
          ( /\ last'.op \in {"onmessage", "timeout"}
            /\ settles'[id] # settles[id] ) =>
          \A other \in MsgIds \ {id} :
             /\ (other \in pendingRequests') = (other \in pendingRequests)
             /\ (other \in timeouts') = (other \in timeouts)
             /\ settles'[other] = settles[other] ]_vars

\* C31 witness: request 2 was rejected by its timeout while request 1 was
\* pending; request 1 is still pending with its timer armed.
C31_Witness ==
    /\ last.op = "timeout"
    /\ last.id = 2
    /\ settles[2] = 1
    /\ pendingRequests = {1}
    /\ timeouts = {1}
    /\ settles[1] = 0

\* ---------------------------------------------------------------- C32

\* The handlers through which the channel changes state.
ChannelTransitions == {"connect", "facade_connect", "reconnect_fire", "onopen",
                       "onerror", "onclose", "heartbeat"}

\* C32: polling does not depend on the channel. No channel transition
\* changes a polling timer, the map of timers, an outstanding fetch or the
\* active sessions; those change only when a create completes, a poll
\* result is terminal, or the facade disconnects; and a create that
\* completes leaves its session polled and tracked whatever state the
\* channel is in.
C32_PollingIndependentOfChannel ==
    [][ /\ last'.op \in ChannelTransitions =>
              /\ UNCHANGED pollerVars
              /\ UNCHANGED activeSessions
        /\ ( \/ armedIntervals' # armedIntervals
             \/ pollingIntervals' # pollingIntervals
             \/ activeSessions' # activeSessions ) =>
              \/ last'.op \in {"createSettled", "facade_disconnect"}
              \/ last'.op = "fetch_settled" /\ last'.out \in TerminalStatuses
        /\ CreateSettled(TRUE, "s1") =>
              /\ pollingIntervals'["s1"] \in armedIntervals'
              /\ "s1" \in activeSessions' ]_vars

\* C32 witness: the reconnect budget was just spent, and the session's timer
\* is armed with a fetch outstanding.
C32_Witness ==
    /\ last.op = "onclose"
    /\ last.out = "gave_up"
    /\ pollingIntervals["s1"] \in armedIntervals
    /\ inflight[pollingIntervals["s1"]] > 0
    /\ "s1" \in activeSessions

\* ---------------------------------------------------------------- C33

\* C33: request identifiers are unique and strictly increasing. The counter
\* never decreases, whatever the sockets do; every identifier that is
\* pending or was settled was issued, so it is at most the counter; a send()
\* that is transmitted takes the counter plus one, which is above every
\* identifier issued before, pending or not; a send() rejected as not
\* connected leaves the counter.
C33_IdentifiersIncrease ==
    /\ [](\A i \in MsgIds :
            (i \in pendingRequests \/ settles[i] > 0) => i <= messageId)
    /\ [][messageId' >= messageId]_vars
    /\ [][ \A p \in BOOLEAN : (last'.op = "send" /\ Send(p)) =>
             IF last'.out = "rejected_not_connected"
               THEN messageId' = messageId /\ pendingRequests' = pendingRequests
               ELSE /\ last'.id = messageId'
                    /\ messageId' > messageId
                    /\ \A i \in MsgIds :
                          (i \in pendingRequests \/ settles[i] > 0) => i < last'.id ]_vars

\* C33 witness: on a second socket, a request got identifier 2 while request
\* 1, sent before, was still pending.
C33_Witness ==
    /\ last.op = "send"
    /\ last.out = "pending"
    /\ last.id = 2
    /\ ws = 2
    /\ pendingRequests = {1, 2}

\* ---------------------------------------------------------------- C34

\* C34: when the remote create fails, createDonationSession rejects and
\* changes neither the active sessions nor anything of the poller: no
\* session is tracked and no timer is armed for it.
C34_FailedCreateLeavesNothing ==
    [][ \A s \in Sessions : CreateSettled(FALSE, s) =>
          /\ last'.out = "rejected_remote"
          /\ UNCHANGED activeSessions
          /\ UNCHANGED pollerVars ]_vars

\* C34 witness: a create failed after another had succeeded; the one session
\* of the create that succeeded is tracked and polled, and nothing else.
C34_Witness ==
    /\ last.op = "createSettled"
    /\ last.out = "rejected_remote"
    /\ Cardinality(activeSessions) = 1
    /\ Cardinality(armedIntervals) = 1
    /\ \A s \in Sessions : (s \in activeSessions) = (pollingIntervals[s] # 0)

\* ---------------------------------------------------------------- C35

\* C35: whatever the order of connect(), disconnect(), opens, errors, closes
\* and reconnect timers, the reconnect counter stays between 0 and the
\* budget the manager was constructed with; with a budget of 0 no reconnect
\* is ever scheduled.
C35_CounterWithinBudget ==
    /\ reconnectAttempts >= 0
    /\ reconnectAttempts <= maxReconnectAttempts
    /\ maxReconnectAttempts = 0 =>
          /\ reconnectTimers = 0
          /\ last.out # "reconnect_scheduled"
          /\ last.op # "reconnect_fire"

\* C35 witness: a manager with a budget of 0 saw its socket close and
\* scheduled nothing.
C35_Witness ==
    /\ maxReconnectAttempts = 0
    /\ last.op = "onclose"
    /\ last.out = "gave_up"
    /\ reconnectAttempts = 0
    /\ reconnectTimers = 0

\* ---------------------------------------------------------------- C36

\* C36: at most one heartbeat interval is armed at any time, and none once
\* disconnect() has run or every socket has closed, also when a second
\* socket opens before the first has closed.
C36_OneHeartbeat ==
    /\ armedHeartbeats <= 1
    /\ last.op = "disconnect" => armedHeartbeats = 0
    /\ Live = {} => armedHeartbeats = 0

\* ---------------------------------------------------------------- C37

\* C37: after the facade's disconnect() no polling timer is armed and no
\* session is active until createDonationSession is called again: a create
\* that was called before disconnect() and comes back after it neither adds
\* a session nor starts polling.
C37_DisconnectedStaysEmpty ==
    [][ \A s \in Sessions :
          ( /\ last.op = "facade_disconnect"
            /\ CreateSettled(TRUE, s) ) =>
          /\ activeSessions' = {}
          /\ armedIntervals' = {} ]_vars

\* ---------------------------------------------------------------- C38

\* C38: a request send() has transmitted is settled in the end, and once
\* only, by its reply or by its timeout, also when the channel closes or
\* disconnect() is called first: error, close and disconnect() leave the
\* pending requests, their timers and their promises as they are.
C38_AcceptedSendSettles ==
    /\ \A id \in MsgIds :
          (id \in pendingRequests) ~> (settles[id] = 1 /\ id \notin pendingRequests)
    /\ [](\A id \in MsgIds : settles[id] <= 1)
    /\ [][ last'.op \in {"onerror", "onclose", "disconnect"} =>
             UNCHANGED <<pendingRequests, timeouts, settles>> ]_vars

\* C38 witness: after disconnect() had dropped the handle, the timeout of a
\* request sent before it fired and rejected the request.
C38_Witness ==
    /\ last.op = "timeout"
    /\ last.out = "rejected_timeout"
    /\ settles[last.id] = 1
    /\ last.id \notin pendingRequests
    /\ ws = 0
    /\ Live = {}

\* ---------------------------------------------------------------- C39

\* C39: a tick of an armed timer that fetched a terminal status and whose
\* callback threw still cancels the timer and removes the session's entry.
C39_ThrowingCallbackStillStops ==
    [][ \A t \in TimerIds, result \in TerminalStatuses :
          ( /\ t \in armedIntervals
            /\ FetchSettled(t, result, TRUE) ) =>
          /\ t \notin armedIntervals'
          /\ pollingIntervals'[timerSession[t]] = 0 ]_vars

\* ---------------------------------------------------------------- C40

\* C40: in every state, the requests in the pending map are the requests
\* whose timeout timer is armed, and the promise of each of them is
\* unsettled: no timer is armed without an entry, no entry is left without
\* its timer.
C40_PendingIffArmedUnsettled ==
    \A id \in MsgIds :
       (id \in pendingRequests) = (id \in timeouts /\ settles[id] = 0)

\* C40 witness: the transmission of request 2 threw; its timer and entry
\* were taken back and it was rejected, while request 1 is pending with its
\* timer armed.
C40_Witness ==
    /\ last.op = "send"
    /\ last.out = "rejected_send_error"
    /\ last.id = 2
    /\ settles[2] = 1
    /\ pendingRequests = {1}
    /\ timeouts = {1}
    /\ settles[1] = 0

====
